---- MODULE Spec2Model ----
(***************************************************************************)
(* Model of common/logging.go: SetupLogging and the helpers it calls       *)
(* (getLogDriverConfig, validateOpts, setupSyslog, setupFluentD,           *)
(* setFireLevels, setupFormatter) acting on the process-wide logrus        *)
(* standard logger (its level, output, formatter and hook list).           *)
(*                                                                         *)
(* Strings are TLA+ strings; option maps are functions from a finite set   *)
(* of key strings to value strings.  One SetupLogging call is walked in    *)
(* program order: Call (formatter, syslog partition and validation),       *)
(* SetupSyslog, then one step per element of loggers, then ReturnNil.      *)
(* logrus.Fatal ends the process: pc = "fatal" has no successor.           *)
(***************************************************************************)
EXTENDS Integers, Sequences, FiniteSets, TLC

VARIABLES
    hooks,      \* logrus std logger: hooks in the order AddHook attached them
    level,      \* logrus std logger: global severity threshold (SetLevel)
    out,        \* logrus std logger: "stderr" or "discard" (SetOutput)
    formatter,  \* logrus std logger: formatter chosen by setupFormatter
    initsystem, \* environment variable INITSYSTEM of the process
    pc,         \* "idle" | "setupSyslog" | "loop" | "returned" | "fatal"
    loggers,    \* argument of the call in progress (or of the last call)
    logOpts,    \* argument of the call in progress (or of the last call)
    tag,        \* argument of the call in progress (or of the last call)
    idx,        \* position of the range loop over loggers (1-based)
    err,        \* value returned by the last call
    fatal,      \* which logrus.Fatal ended the process ("" while it runs)
    hookBase,   \* Len(hooks) when the call in progress (or the last) began
    levelBase   \* level when the call in progress (or the last) began

vars == <<hooks, level, out, formatter, initsystem, pc, loggers, logOpts, tag,
          idx, err, fatal, hookBase, levelBase>>

(***************************************************************************)
(* Bounds of the model.                                                    *)
(***************************************************************************)
MaxLoggers == 2   \* longest loggers list a call is given
MaxOpts == 2      \* most entries of a logOpts map a call is given
MaxHooks == 4     \* a call starts only if its hooks fit in this many

(***************************************************************************)
(* logrus.Level and syslog.Priority values.                                *)
(***************************************************************************)
PanicLevel == 0
FatalLevel == 1
ErrorLevel == 2
WarnLevel == 3
InfoLevel == 4
DebugLevel == 5

Levels == {PanicLevel, FatalLevel, ErrorLevel, WarnLevel, InfoLevel, DebugLevel}

LOG_ALERT == 1
LOG_CRIT == 2
LOG_ERR == 3
LOG_WARNING == 4
LOG_INFO == 6
LOG_DEBUG == 7

\* syslogLevelMap maps logrus.Level values to syslog.Priority levels.
syslogLevelMap(l) ==
    CASE l = PanicLevel -> LOG_ALERT
      [] l = FatalLevel -> LOG_CRIT
      [] l = ErrorLevel -> LOG_ERR
      [] l = WarnLevel -> LOG_WARNING
      [] l = InfoLevel -> LOG_INFO
      [] l = DebugLevel -> LOG_DEBUG

\* The allow-lists.
syslogOpts == {"syslog.level"}

fluentDOpts == {"fluentd.address", "fluentd.tag", "fluentd.level"}

\* ParseLevel, were an unknown string to fall back to Info.
ParseLevel_DefaultsToInfo(s) ==
    CASE s = "panic" -> PanicLevel
      [] s = "fatal" -> FatalLevel
      [] s = "error" -> ErrorLevel
      [] s \in {"warn", "warning"} -> WarnLevel
      [] s = "debug" -> DebugLevel
      [] OTHER -> InfoLevel

\* logrus.ParseLevel on the lower-case strings calls are given here: the
\* level a string names, or -1 for its error.
ParseLevel(s) ==
    CASE s = "panic" -> PanicLevel
      [] s = "fatal" -> FatalLevel
      [] s = "error" -> ErrorLevel
      [] s \in {"warn", "warning"} -> WarnLevel
      [] s = "info" -> InfoLevel
      [] s = "debug" -> DebugLevel
      [] OTHER -> -1

\* setFireLevels, were Error missing from the Warn case.
setFireLevels_WarnDropsError(l) ==
    CASE l = PanicLevel -> <<PanicLevel>>
      [] l = FatalLevel -> <<PanicLevel, FatalLevel>>
      [] l = ErrorLevel -> <<PanicLevel, FatalLevel, ErrorLevel>>
      [] l = WarnLevel -> <<PanicLevel, FatalLevel, WarnLevel>>
      [] l = InfoLevel ->
            <<PanicLevel, FatalLevel, ErrorLevel, WarnLevel, InfoLevel>>
      [] l = DebugLevel ->
            <<PanicLevel, FatalLevel, ErrorLevel, WarnLevel, InfoLevel,
              DebugLevel>>
      [] OTHER -> <<>>

\* setFireLevels: the switch of the source, one literal slice per case.
setFireLevels(l) ==
    CASE l = PanicLevel -> <<PanicLevel>>
      [] l = FatalLevel -> <<PanicLevel, FatalLevel>>
      [] l = ErrorLevel -> <<PanicLevel, FatalLevel, ErrorLevel>>
      [] l = WarnLevel -> <<PanicLevel, FatalLevel, ErrorLevel, WarnLevel>>
      [] l = InfoLevel ->
            <<PanicLevel, FatalLevel, ErrorLevel, WarnLevel, InfoLevel>>
      [] l = DebugLevel ->
            <<PanicLevel, FatalLevel, ErrorLevel, WarnLevel, InfoLevel,
              DebugLevel>>
      [] OTHER -> <<>>

\* The logger names, tags, option keys and option values calls are given.
LoggerNames == {"syslog", "fluentd", "logstash", "("}

Tags == {"cilium"}

OptValues(k) ==
    CASE k = "syslog.level" -> {"debug", "bogus"}
      [] k = "fluentd.level" -> {"warning", "bogus"}
      [] k = "fluentd.address" -> {"h:1", "h"}
      [] k = "fluentd.tag" -> {"t"}
      [] OTHER -> {"x"}

OptKeys ==
    {"syslog.level", "fluentd.level", "fluentd.address", "fluentd.tag",
     "syslog.x", "fluentd.x", "xfluentd.level", "fluentdextra.level"}

(***************************************************************************)
(* regexp.MatchString for the patterns getLogDriverConfig builds: a        *)
(* pattern is a sequence of atoms (a literal character, or "." for any     *)
(* character), each optionally followed by "*"; an opening parenthesis     *)
(* that is never closed does not compile.  The match is unanchored.        *)
(***************************************************************************)
Char(s, i) == SubSeq(s, i, i)

Rest(s, i) == SubSeq(s, i, Len(s))

RegexpCompiles(re) ==
    \A i \in 1..Len(re) :
        Char(re, i) = "(" => \E j \in (i + 1)..Len(re) : Char(re, j) = ")"

RECURSIVE MatchHere(_, _)
MatchHere(re, text) ==
    IF Len(re) = 0 THEN TRUE
    ELSE IF Len(re) >= 2 /\ Char(re, 2) = "*"
    THEN \E n \in 0..Len(text) :
            /\ \A j \in 1..n : Char(re, 1) = "." \/ Char(re, 1) = Char(text, j)
            /\ MatchHere(Rest(re, 3), Rest(text, n + 1))
    ELSE /\ Len(text) >= 1
         /\ Char(re, 1) = "." \/ Char(re, 1) = Char(text, 1)
         /\ MatchHere(Rest(re, 2), Rest(text, 2))

MatchString(re, text) ==
    \E i \in 1..(Len(text) + 1) : MatchHere(re, Rest(text, i))

Restrict(f, S) == [k \in S |-> f[k]]

\* getLogDriverConfig: whether it reaches logrus.Fatal (MatchString returns an
\* error for the first key it is given), and the map it returns otherwise.
\* Matched tabulates, once, the keys of the model that each pattern matches.
getLogDriverConfigFatal(logDriver, opts) ==
    DOMAIN opts # {} /\ ~RegexpCompiles(logDriver \o ".*")

Matched ==
    [logDriver \in LoggerNames |->
        {k \in OptKeys : MatchString(logDriver \o ".*", k)}]

getLogDriverConfig(logDriver, opts) ==
    Restrict(opts, DOMAIN opts \cap Matched[logDriver])

\* validateOpts, were its test inverted.
validateOpts_Inverted(opts, supportedOpts) ==
    {k \in DOMAIN opts : k \in supportedOpts}

\* validateOpts: the keys it may name in its error (none: it returns nil).
validateOpts(opts, supportedOpts) == {k \in DOMAIN opts : k \notin supportedOpts}

NoError == [kind |-> "nil", driver |-> "", key |-> ""]

UnsupportedOption(logDriver, k) ==
    [kind |-> "UnsupportedOption", driver |-> logDriver, key |-> k]

UnknownSink(logger) == [kind |-> "UnknownSink", driver |-> logger, key |-> ""]

\* setupFormatter
setupFormatter(env) == IF env = "SYSTEMD" THEN "notimestamp" ELSE "rfc3339"

\* net.SplitHostPort on "host:port" (no brackets): the text before and after
\* the only colon; without exactly one colon it fails and yields "", "".
SplitHostPort(hostAndPort) ==
    LET colons == {i \in 1..Len(hostAndPort) : Char(hostAndPort, i) = ":"}
    IN  IF Cardinality(colons) = 1
        THEN LET c == CHOOSE i \in colons : TRUE
             IN  <<SubSeq(hostAndPort, 1, c - 1), Rest(hostAndPort, c + 1)>>
        ELSE <<"", "">>

Digit(c) ==
    CASE c = "0" -> 0 [] c = "1" -> 1 [] c = "2" -> 2 [] c = "3" -> 3
      [] c = "4" -> 4 [] c = "5" -> 5 [] c = "6" -> 6 [] c = "7" -> 7
      [] c = "8" -> 8 [] c = "9" -> 9 [] OTHER -> -1

\* strconv.Atoi on an unsigned decimal: its value, or -1 for its error.
RECURSIVE Atoi(_)
Atoi(s) ==
    IF Len(s) = 0 THEN -1
    ELSE LET d == Digit(Char(s, Len(s)))
         IN  IF d < 0 THEN -1
             ELSE IF Len(s) = 1 THEN d
             ELSE LET hi == Atoi(SubSeq(s, 1, Len(s) - 1))
                  IN  IF hi < 0 THEN -1 ELSE 10 * hi + d

\* The lookup, were the fallback "debug" whatever the caller passes.
Lookup_DefaultDebug(m, k, default) == IF k \in DOMAIN m THEN m[k] ELSE "debug"

\* m[k] with the fallback the installers use when the key is absent.
Lookup(m, k, default) == IF k \in DOMAIN m THEN m[k] ELSE default

(***************************************************************************)
(* The inputs a call is given.                                             *)
(***************************************************************************)
OptionMaps ==
    UNION {{m \in [S -> UNION {OptValues(k) : k \in S}] :
                \A k \in S : m[k] \in OptValues(k)} :
           S \in {T \in SUBSET OptKeys : Cardinality(T) <= MaxOpts}}

LoggerLists == UNION {[1..n -> LoggerNames] : n \in 0..MaxLoggers}

(***************************************************************************)
(* The process before the first call: logrus' standard logger writes to    *)
(* stderr at InfoLevel with no hooks.                                      *)
(***************************************************************************)
Init ==
    /\ hooks = <<>>
    /\ level = InfoLevel
    /\ out = "stderr"
    /\ formatter = "default"
    /\ initsystem \in {"SYSTEMD", ""}
    /\ pc = "idle"
    /\ loggers = <<>>
    /\ logOpts = <<>>
    /\ tag = ""
    /\ idx = 0
    /\ err = NoError
    /\ fatal = ""
    /\ hookBase = 0
    /\ levelBase = InfoLevel

\* logrus.Fatal: the process exits.
Fatal(why) == pc' = "fatal" /\ fatal' = why

\* SetupLogging returns e.
Return(e) == pc' = "returned" /\ err' = e

\* SetupLogging, lines 84-95: the formatter, then the syslog sub-map is
\* partitioned and validated; on success the default output is discarded.
Call(ls, opts, t) ==
    /\ loggers' = ls /\ logOpts' = opts /\ tag' = t
    /\ hookBase' = Len(hooks) /\ levelBase' = level
    /\ idx' = 0
    /\ formatter' = setupFormatter(initsystem)
    /\ IF getLogDriverConfigFatal("syslog", opts)
       THEN Fatal("regexp") /\ UNCHANGED <<out, err>>
       ELSE LET valuesToValidate == getLogDriverConfig("syslog", opts)
                bad == validateOpts(valuesToValidate, syslogOpts)
            IN  IF bad # {}
                THEN /\ \E k \in bad : Return(UnsupportedOption("syslog", k))
                     /\ UNCHANGED <<out, fatal>>
                ELSE /\ out' = "discard"
                     /\ pc' = "setupSyslog"
                     /\ err' = NoError
                     /\ UNCHANGED fatal
    /\ UNCHANGED <<hooks, level, initsystem>>

\* The caller calls SetupLogging with some arguments.
SetupLogging ==
    /\ pc = "idle"
    /\ \E ls \in LoggerLists :
          /\ Len(hooks) + 1 + Len(ls) <= MaxHooks
          /\ \E opts \in OptionMaps, t \in Tags : Call(ls, opts, t)

\* The hook NewSyslogHook("", "", priority, tag) builds.
SyslogHook(l, t) == [kind |-> "syslog", priority |-> syslogLevelMap(l), tag |-> t]

\* AddHook, were it to replace the list.
AddHook_Replace(hs, h) == <<h>>

\* logrus.AddHook appends to the standard logger's hook list.
AddHook(hs, h) == Append(hs, h)

\* SetLevel, were the call left out.
SetLevel_Skip(l) == level' = level

\* logrus.SetLevel writes the standard logger's threshold.
SetLevel(l) == level' = l

\* setupSyslog, lines 131-150.  NewSyslogHook dials the local syslog daemon
\* and may fail.
SetupSyslog ==
    /\ pc = "setupSyslog"
    /\ LET valuesToValidate == getLogDriverConfig("syslog", logOpts)
           logLevel == Lookup(valuesToValidate, "syslog.level", "info")
           l == ParseLevel(logLevel)
       IN  IF l < 0
           THEN Fatal("syslog.level") /\ UNCHANGED <<level, hooks, idx>>
           ELSE /\ SetLevel(l)
                /\ \/ /\ hooks' = AddHook(hooks, SyslogHook(l, tag))
                      /\ pc' = "loop"
                      /\ idx' = 1
                      /\ UNCHANGED fatal
                   \/ /\ Fatal("syslog.hook")
                      /\ UNCHANGED <<hooks, idx>>
    /\ UNCHANGED <<out, formatter, initsystem, loggers, logOpts, tag, err,
                   hookBase, levelBase>>

\* The range loop of SetupLogging, lines 99-127, one element per step.
\* Line 100 partitions logOpts for the element before the switch looks at it.
InLoop == pc = "loop" /\ idx <= Len(loggers)

LoopFrame == UNCHANGED <<out, formatter, initsystem, loggers, logOpts, tag,
                         hookBase, levelBase, level>>

\* getLogDriverConfig reaches logrus.Fatal: the element is no regular
\* expression and logOpts has a key to match it against.
PartitionFatal ==
    /\ InLoop
    /\ getLogDriverConfigFatal(loggers[idx], logOpts)
    /\ Fatal("regexp")
    /\ UNCHANGED <<hooks, idx, err>>
    /\ LoopFrame

\* case "syslog", were it to attach a syslog hook again.
SkipSyslog_Reinstalls ==
    /\ InLoop
    /\ ~getLogDriverConfigFatal(loggers[idx], logOpts)
    /\ loggers[idx] = "syslog"
    /\ hooks' = AddHook(hooks, SyslogHook(level, tag))
    /\ idx' = idx + 1
    /\ UNCHANGED <<pc, err, fatal>>
    /\ LoopFrame

\* case "syslog": continue.
SkipSyslog ==
    /\ InLoop
    /\ ~getLogDriverConfigFatal(loggers[idx], logOpts)
    /\ loggers[idx] = "syslog"
    /\ idx' = idx + 1
    /\ UNCHANGED <<hooks, pc, err, fatal>>
    /\ LoopFrame

\* setupFluentD, lines 167-204: what it does with a validated sub-map.  The
\* result is <<"fatal", why>> or <<"hook", the hook it attaches>>;
\* connected tells whether logrus_fluent.New reached the collector.
FluentDHook(host, port, t, levels) ==
    [kind |-> "fluentd", host |-> host, port |-> port, tag |-> t,
     levels |-> levels]

setupFluentD(opts, connected) ==
    LET logLevel == Lookup(opts, "fluentd.level", "info")
        l == ParseLevel(logLevel)
        hostAndPort == Lookup(opts, "fluentd.address", "localhost:24224")
        hp == SplitHostPort(hostAndPort)
        port == Atoi(hp[2])
    IN  IF l < 0 THEN <<"fatal", "fluentd.level">>
        ELSE IF port < 0 THEN <<"fatal", "fluentd.port">>
        ELSE IF ~connected THEN <<"fatal", "fluentd.hook">>
        ELSE <<"hook", FluentDHook(hp[1], port, Lookup(opts, "fluentd.tag", ""),
                                   setFireLevels(l))>>

\* case "fluentd": validateOpts, then setupFluentD.
FluentD ==
    /\ InLoop
    /\ ~getLogDriverConfigFatal(loggers[idx], logOpts)
    /\ loggers[idx] = "fluentd"
    /\ LET valuesToValidate == getLogDriverConfig(loggers[idx], logOpts)
           bad == validateOpts(valuesToValidate, fluentDOpts)
       IN  IF bad # {}
           THEN /\ \E k \in bad : Return(UnsupportedOption(loggers[idx], k))
                /\ UNCHANGED <<hooks, idx, fatal>>
           ELSE \E connected \in BOOLEAN :
                  LET r == setupFluentD(valuesToValidate, connected)
                  IN  IF r[1] = "fatal"
                      THEN Fatal(r[2]) /\ UNCHANGED <<hooks, idx, err>>
                      ELSE /\ hooks' = AddHook(hooks, r[2])
                           /\ idx' = idx + 1
                           /\ UNCHANGED <<pc, err, fatal>>
    /\ LoopFrame

\* default: the element is no supported log driver.
UnknownDriver ==
    /\ InLoop
    /\ ~getLogDriverConfigFatal(loggers[idx], logOpts)
    /\ loggers[idx] \notin {"syslog", "fluentd"}
    /\ Return(UnknownSink(loggers[idx]))
    /\ UNCHANGED <<hooks, idx, fatal>>
    /\ LoopFrame

\* The loop is over: return nil.
ReturnNil ==
    /\ pc = "loop"
    /\ idx > Len(loggers)
    /\ Return(NoError)
    /\ UNCHANGED <<hooks, idx, fatal>>
    /\ LoopFrame

\* The caller takes the returned error and goes on; the arguments and the
\* result of the finished call are dead.
Resume ==
    /\ pc = "returned"
    /\ pc' = "idle"
    /\ loggers' = <<>> /\ logOpts' = <<>> /\ tag' = ""
    /\ idx' = 0
    /\ err' = NoError
    /\ hookBase' = Len(hooks) /\ levelBase' = level
    /\ UNCHANGED <<hooks, level, out, formatter, initsystem, fatal>>

Next ==
    \/ SetupLogging
    \/ SetupSyslog
    \/ PartitionFatal
    \/ SkipSyslog
    \/ FluentD
    \/ UnknownDriver
    \/ ReturnNil
    \/ Resume

Spec == Init /\ [][Next]_vars

(***************************************************************************)
(* Vocabulary of the properties.  A call is under way or has ended when    *)
(* pc # "idle"; hooks[hookBase + 1 .. Len(hooks)] are the hooks it has     *)
(* attached so far.                                                        *)
(***************************************************************************)
NewHookIdx == (hookBase + 1)..Len(hooks)

CountKind(kind) == Cardinality({i \in NewHookIdx : hooks[i].kind = kind})

SyslogSubMap == getLogDriverConfig("syslog", logOpts)

FluentDSubMap == getLogDriverConfig("fluentd", logOpts)

SyslogValid == DOMAIN SyslogSubMap \subseteq syslogOpts

FluentDValid == DOMAIN FluentDSubMap \subseteq fluentDOpts

\* The strings logrus.ParseLevel accepts.
LevelNames == {"panic", "fatal", "error", "warn", "warning", "info", "debug"}

Unparsable(opts, k) == k \in DOMAIN opts /\ opts[k] \notin LevelNames

SyslogLevel == ParseLevel(Lookup(SyslogSubMap, "syslog.level", "info"))

FluentDLevel == ParseLevel(Lookup(FluentDSubMap, "fluentd.level", "info"))

\* The call has run setupSyslog (to its end or to a logrus.Fatal).
PastSyslog == pc = "loop" \/ (pc \in {"returned", "fatal"} /\ SyslogValid)

\* Element j of loggers has been taken by the range loop and its step is over.
Dispatched(j) ==
    /\ j \in 1..Len(loggers)
    /\ \/ pc = "loop" /\ j < idx
       \/ pc \in {"returned", "fatal"} /\ j <= idx

FluentDDispatched == \E j \in 1..Len(loggers) : Dispatched(j) /\ loggers[j] = "fluentd"

\* C1 (as amended): in a call whose syslog sub-map passes validation and
\* whose level parses, and whose syslog hook could be constructed, exactly one
\* syslog hook is attached, before every other hook of the call, whatever
\* the loggers list is.
C1_OneSyslogHookPerCall ==
    (PastSyslog /\ SyslogLevel >= 0 /\ fatal # "syslog.hook")
        => /\ CountKind("syslog") = 1
           /\ hooks[hookBase + 1].kind = "syslog"

\* C1 as stated: the same for every call whose syslog sub-map passes
\* validation and whose level parses.
C1_Original ==
    (PastSyslog /\ SyslogLevel >= 0)
        => /\ CountKind("syslog") = 1
           /\ hooks[hookBase + 1].kind = "syslog"

\* A later call given "syslog" twice and "fluentd" nowhere has returned nil
\* with a single new hook.
C1_Witness ==
    /\ pc = "returned" /\ err = NoError
    /\ loggers = <<"syslog", "syslog">>
    /\ hookBase > 0
    /\ Len(hooks) = hookBase + 1

\* C2: a key outside the allow-list in the sub-map of a kind whose validation
\* is reached makes the call return UnsupportedOption for that kind and that
\* key, with no hook of the kind attached (syslog: no hook at all, threshold
\* untouched); and every hook attached belongs to a kind whose sub-map passed
\* validation.
C2_UnsupportedOptionInstallsNothing ==
    /\ (pc # "idle" /\ ~SyslogValid)
         => /\ pc = "returned"
            /\ err.kind = "UnsupportedOption" /\ err.driver = "syslog"
            /\ err.key \in DOMAIN SyslogSubMap \ syslogOpts
            /\ Len(hooks) = hookBase
            /\ level = levelBase
    /\ (FluentDDispatched /\ ~FluentDValid)
         => /\ pc = "returned"
            /\ err.kind = "UnsupportedOption" /\ err.driver = "fluentd"
            /\ err.key \in DOMAIN FluentDSubMap \ fluentDOpts
            /\ CountKind("fluentd") = 0
    /\ pc # "idle" =>
         \A i \in NewHookIdx :
            /\ hooks[i].kind = "syslog" => SyslogValid
            /\ hooks[i].kind = "fluentd" => FluentDValid

\* A later call was given a valid syslog sub-map and a fluentd sub-map with
\* an unsupported key: it returned after attaching the syslog hook alone.
C2_Witness ==
    /\ pc = "returned"
    /\ err = UnsupportedOption("fluentd", "fluentd.x")
    /\ "syslog" \notin {loggers[j] : j \in 1..Len(loggers)}
    /\ hookBase > 0
    /\ Len(hooks) = hookBase + 1

\* The literal-prefix partition: the entries whose key starts with prefix.
HasPrefix(k, prefix) ==
    Len(k) >= Len(prefix) /\ SubSeq(k, 1, Len(prefix)) = prefix

LiteralPrefixSubMap(logDriver, opts) ==
    Restrict(opts, {k \in DOMAIN opts : HasPrefix(k, logDriver \o ".")})

\* C3: each sub-map a call computes with getLogDriverConfig (for "syslog",
\* and for the element of loggers the loop is at) holds exactly the entries
\* whose key starts with the literal string logDriver + ".".
C3_LiteralPrefixPartition ==
    pc # "idle" =>
        /\ SyslogSubMap = LiteralPrefixSubMap("syslog", logOpts)
        /\ (InLoop /\ ~getLogDriverConfigFatal(loggers[idx], logOpts))
             => getLogDriverConfig(loggers[idx], logOpts)
                    = LiteralPrefixSubMap(loggers[idx], logOpts)

\* C4: when the loop comes to an element that is no known sink kind, the
\* call returns UnknownSink naming it and the process goes on; every
\* "fluentd" before it has its hook and nothing after it is installed.
C4_UnknownSinkIsRecoverable ==
    (/\ pc \in {"returned", "fatal"}
     /\ idx \in 1..Len(loggers)
     /\ loggers[idx] \notin {"syslog", "fluentd"})
        => /\ pc = "returned"
           /\ err = UnknownSink(loggers[idx])
           /\ CountKind("fluentd")
                = Cardinality({j \in 1..(idx - 1) : loggers[j] = "fluentd"})

\* C5: a call that returns nil and was asked for "fluentd", once or several
\* times, has attached exactly one fluentd hook.
C5_EachKindInstalledOnce ==
    (/\ pc = "returned" /\ err = NoError
     /\ \E j \in 1..Len(loggers) : loggers[j] = "fluentd")
        => CountKind("fluentd") = 1

\* s lists, highest severity first and without repetition, exactly the
\* levels at or above l (a higher severity is a smaller logrus.Level).
IsAtOrAbove(s, l) ==
    /\ {s[i] : i \in 1..Len(s)} = {x \in Levels : x <= l}
    /\ \A i, j \in 1..Len(s) : i < j => s[i] < s[j]

\* setFireLevels on each of the six levels, and on Warn spelled out.
FireLevelsAreAtOrAbove ==
    /\ \A l \in Levels : IsAtOrAbove(setFireLevels(l), l)
    /\ setFireLevels(WarnLevel) = <<PanicLevel, FatalLevel, ErrorLevel, WarnLevel>>

\* C6: setFireLevels(l) is the at-or-above sequence of l for each of the six
\* levels, and every fluentd hook a call attaches fires on the at-or-above
\* sequence of the call's fluentd level.
C6_FireLevelsAtOrAbove ==
    /\ FireLevelsAreAtOrAbove
    /\ pc # "idle" =>
         \A i \in NewHookIdx :
            hooks[i].kind = "fluentd" => IsAtOrAbove(hooks[i].levels, FluentDLevel)

\* A call given fluentd.level = "warning" has attached its fluentd hook.
C6_Witness ==
    /\ pc = "returned" /\ err = NoError
    /\ "fluentd.level" \in DOMAIN logOpts /\ logOpts["fluentd.level"] = "warning"
    /\ \E i \in NewHookIdx :
          /\ hooks[i].kind = "fluentd"
          /\ hooks[i].levels = <<PanicLevel, FatalLevel, ErrorLevel, WarnLevel>>

\* What C7 says of the hooks a call attaches: a sink whose level key is
\* absent is installed with level Info.
AbsentLevelMeansInfo ==
    pc # "idle" =>
        /\ (PastSyslog /\ "syslog.level" \notin DOMAIN logOpts)
             => level = InfoLevel
        /\ \A i \in NewHookIdx :
             /\ (hooks[i].kind = "syslog" /\ "syslog.level" \notin DOMAIN logOpts)
                  => hooks[i].priority = LOG_INFO
             /\ (hooks[i].kind = "fluentd" /\ "fluentd.level" \notin DOMAIN logOpts)
                  => hooks[i].levels = <<PanicLevel, FatalLevel, ErrorLevel,
                                         WarnLevel, InfoLevel>>

\* The call with an empty loggers list and an empty option map is over, and
\* has returned nil with one new hook, the syslog hook at Info.
EmptyCallOver == pc \in {"returned", "fatal"} /\ loggers = <<>> /\ DOMAIN logOpts = {}

EmptyCallSucceeded ==
    /\ pc = "returned" /\ err = NoError
    /\ Len(hooks) = hookBase + 1
    /\ hooks[Len(hooks)] = [kind |-> "syslog", priority |-> LOG_INFO, tag |-> tag]
    /\ level = InfoLevel

\* C7 (as amended): SetupLogging with an empty loggers list and an empty
\* option map, when the syslog hook can be constructed, returns nil and
\* attaches exactly one hook, the syslog hook, with level Info; and a sink
\* whose level key is absent is installed with level Info.
C7_DefaultsToInfo ==
    /\ (EmptyCallOver /\ fatal # "syslog.hook") => EmptyCallSucceeded
    /\ AbsentLevelMeansInfo

\* C7 as stated: the empty call always returns nil with its one hook.
C7_Original ==
    /\ EmptyCallOver => EmptyCallSucceeded
    /\ AbsentLevelMeansInfo

\* The empty call has returned nil with its one hook, in a process whose
\* earlier call had set the threshold to Debug and attached a fluentd hook.
C7_Witness ==
    /\ EmptyCallOver /\ EmptyCallSucceeded
    /\ levelBase = DebugLevel
    /\ \E i \in 1..hookBase : hooks[i].kind = "fluentd"

\* C8: a sink whose installer is run on a validated sub-map with a level that
\* does not parse ends the process: the call returns nothing, no hook of the
\* kind is attached, and for syslog the threshold is left as it was.
C8_InvalidLevelIsFatal ==
    /\ (/\ pc \notin {"idle", "setupSyslog"}
        /\ SyslogValid /\ Unparsable(logOpts, "syslog.level"))
         => /\ pc = "fatal" /\ fatal = "syslog.level"
            /\ Len(hooks) = hookBase
            /\ level = levelBase
    /\ (FluentDDispatched /\ FluentDValid /\ Unparsable(logOpts, "fluentd.level"))
         => /\ pc = "fatal" /\ fatal = "fluentd.level"
            /\ CountKind("fluentd") = 0

\* The process ended in setupFluentD on fluentd.level = "bogus", after the
\* call attached its syslog hook at Debug.
C8_Witness ==
    /\ pc = "fatal" /\ fatal = "fluentd.level"
    /\ logOpts["fluentd.level"] = "bogus"
    /\ Len(hooks) = hookBase + 1
    /\ level = DebugLevel

IsPrefix(s, t) == Len(s) <= Len(t) /\ SubSeq(t, 1, Len(s)) = s

HasSyslogHook(hs) == \E i \in 1..Len(hs) : hs[i].kind = "syslog"

\* C10: every step keeps the hooks there were, in their places, and only
\* adds at the end; once a syslog hook is attached there is always one.
C10_HooksOnlyGrow ==
    [][/\ IsPrefix(hooks, hooks')
       /\ HasSyslogHook(hooks) => HasSyslogHook(hooks')]_vars

\* A second call has returned an error after adding to the hooks of a first.
C10_Witness ==
    /\ pc = "returned" /\ err.kind = "UnknownSink"
    /\ hookBase > 0
    /\ Len(hooks) > hookBase + 1

====
